---- MODULE Spec2Model ----
(***************************************************************************)
(* A model of the orchestration layer of playing_with_photonics:           *)
(*   utils/export_utils.py      SParameterExporter.export_to_touchstone    *)
(*   utils/meep_utils/runner.py MeepRunner                                 *)
(*   utils/meep_utils/digital_twins/base.py GDSFactoryTwin                 *)
(*   utils/fem_utils.py         WaveguideTemplate.solve_modes/solve_coupler*)
(*   utils/general_utils.py     interpolate_design_parameter               *)
(* Each subsystem has its own variables and its own specification; the     *)
(* variables of the other subsystems stay at their idle values.            *)
(*                                                                         *)
(* Numbers.  Complex S values are integer tokens (the exporter only moves  *)
(* them).  Frequencies are integers in MHz: c / (wvl * 1e-6) Hz is         *)
(* c \div wvl MHz for a wavelength in microns.  Effective indices are      *)
(* integers in units of 1e-5.  Flux ratios are exact reduced fractions     *)
(* <<num, den>>.  Python's 0-based indices are 1-based here.               *)
(***************************************************************************)
EXTENDS Integers, Sequences, FiniteSets, TLC

VARIABLES
    \* export_to_touchstone: the caller's arguments and the files written
    wvl, s_dict, port_map, files,
    \* WaveguideTemplate: the material stack, what the mode solver returns for
    \* the next solve, and what the last solve_modes / solve_coupler returned
    n_clad, n_box, modesIn, modesRet,
    \* interpolate_design_parameter: its arguments and its last outcome
    x_sweep, y_sweep, target_x, interpRet,
    \* GDSFactoryTwin instances: the cached _component of each twin, how often
    \* its _build_component ran, the layout objects created so far, and the
    \* layout each accessor last worked from
    component, builds, layouts, used,
    \* MeepRunner: self.sim, the mp.Simulation objects constructed so far, the
    \* position and local variables of a simulate_component call in progress,
    \* and the outcome of the last call (none while a call is in progress)
    sim, simCount, pc, frame, ret,
    \* create_coupler_mesh: the template's domain_width and slab_thickness, the
    \* arguments width and gap, and the polygons of the last mesh
    domain_width, slab_thickness, width, gap, polygons,
    \* get_complex_s_params: its arguments and its last result
    T_linear, phase_rad, sRet,
    \* simulate_component calls running concurrently on one MeepRunner: the
    \* position and local variables of each call, the flux every simulation's
    \* monitors hold, and the order in which the calls assigned self.sim
    calls, simFlux, stored

exportVars == <<wvl, s_dict, port_map, files>>
modeVars == <<n_clad, n_box, modesIn, modesRet>>
interpVars == <<x_sweep, y_sweep, target_x, interpRet>>
twinVars == <<component, builds, layouts, used>>
runnerVars == <<sim, simCount, pc, frame, ret>>
meshVars == <<domain_width, slab_thickness, width, gap, polygons>>
sparVars == <<T_linear, phase_rad, sRet>>
concVars == <<calls, simFlux, stored>>
vars == <<exportVars, modeVars, interpVars, twinVars, runnerVars,
          meshVars, sparVars, concVars>>

(***************************************************************************)
(* Bounds of the model                                                     *)
(***************************************************************************)
MaxPoints == 2
MaxExports == 2
MaxModes == 4
MaxSamples == 3
MaxLayouts == 4
MaxSims == 3
NFreq == 1

(***************************************************************************)
(* Generic helpers                                                         *)
(***************************************************************************)
\* np.flip on a 1-D array
Reverse(s) == [i \in 1..Len(s) |-> s[Len(s) + 1 - i]]

(***************************************************************************)
(* export_utils.py : SParameterExporter.export_to_touchstone               *)
(***************************************************************************)
c_m_s == 299792458

PortNames == {"o1", "o2", "o3"}
SVals == {1, 2}
WvlVals == 1..3

\* freq_hz = c_m_s / (wvl * 1e-6), elementwise
FreqHz(w) == [i \in 1..Len(w) |-> c_m_s \div w[i]]

\* if freq_hz[0] > freq_hz[-1]
NeedsFlip(freq) == freq[1] > freq[Len(freq)]

\* freq_hz = np.flip(freq_hz)
FlippedFreq(freq) == IF NeedsFlip(freq) THEN Reverse(freq) ELSE freq

\* Mutant of FlippedDict: the frequency axis is flipped, the data is not.
FlippedDictStale(d, freq) == d

\* for k, v in s_dict.items(): s_dict[k] = np.flip(v)
FlippedDict(d, freq) ==
    IF NeedsFlip(freq) THEN [k \in DOMAIN d |-> Reverse(d[k])] ELSE d

\* p_idx = {name: i for i, name in enumerate(port_map)}  (a later duplicate wins)
PIdx(pm) ==
    [name \in {pm[i] : i \in DOMAIN pm} |->
        CHOOSE i \in DOMAIN pm :
            pm[i] = name /\ \A j \in DOMAIN pm : pm[j] = name => j <= i]

\* Mutant of SMatrixIndex: the matrix is indexed [freq, in_port, out_port].
SMatrixIndexTransposed(p_in, p_out, pidx) == <<pidx[p_in], pidx[p_out]>>

\* i, j = p_idx[p_out], p_idx[p_in]   # S_out_in
SMatrixIndex(p_in, p_out, pidx) == <<pidx[p_out], pidx[p_in]>>

\* s_matrix = np.zeros((n_points, n_ports, n_ports), dtype=complex)
ZeroSMatrix(n_points, n_ports) ==
    [f \in 1..n_points |-> [i \in 1..n_ports |-> [j \in 1..n_ports |-> 0]]]

\* for (p_in, p_out), data in s_dict.items():
\*     if p_in in p_idx and p_out in p_idx: s_matrix[:, i, j] = data
RECURSIVE FillSMatrix(_, _, _, _)
FillSMatrix(m, d, keys, pidx) ==
    IF keys = {} THEN m
    ELSE LET k == CHOOSE x \in keys : TRUE
             p_in == k[1]
             p_out == k[2]
             m2 == IF p_in \in DOMAIN pidx /\ p_out \in DOMAIN pidx
                   THEN LET ij == SMatrixIndex(p_in, p_out, pidx)
                        IN [f \in DOMAIN m |->
                               [m[f] EXCEPT ![ij[1]][ij[2]] = d[k][f]]]
                   ELSE m
         IN FillSMatrix(m2, d, keys \ {k}, pidx)

BuildSMatrix(d, pm, n_points) ==
    FillSMatrix(ZeroSMatrix(n_points, Len(pm)), d, DOMAIN d, PIdx(pm))

\* The inputs a caller passes: a sampled wavelength axis (strictly monotonic,
\* either direction), a port list without repeats, and a sparse dictionary
\* whose arrays have the length of the axis.
RECURSIVE SeqsUpTo(_, _)
SeqsUpTo(S, n) ==
    IF n = 0 THEN {<<>>}
    ELSE LET shorter == SeqsUpTo(S, n - 1)
         IN shorter \cup {Append(s, x) : s \in {t \in shorter : Len(t) = n - 1}, x \in S}

StrictlyAscending(s) == \A i \in 1..(Len(s) - 1) : s[i] < s[i + 1]
StrictlyDescending(s) == \A i \in 1..(Len(s) - 1) : s[i] > s[i + 1]

WvlAxes ==
    {w \in SeqsUpTo(WvlVals, MaxPoints) :
        Len(w) >= 1 /\ (StrictlyAscending(w) \/ StrictlyDescending(w))}

PortMaps ==
    {pm \in SeqsUpTo(PortNames, 2) :
        Len(pm) >= 1 /\ \A i, j \in DOMAIN pm : pm[i] = pm[j] => i = j}

KeySets == {K \in SUBSET (PortNames \X PortNames) : Cardinality(K) <= 2}

SDicts(n) == UNION {[K -> [1..n -> SVals]] : K \in KeySets}

ExportIdle ==
    /\ wvl = <<>>
    /\ s_dict = <<>>
    /\ port_map = <<>>
    /\ files = <<>>

ExportInit ==
    /\ wvl \in WvlAxes
    /\ s_dict \in SDicts(Len(wvl))
    /\ port_map \in PortMaps
    /\ files = <<>>

\* export_to_touchstone(filename, wvl, s_dict, port_map), called with the
\* objects the caller holds.  The dictionary is the caller's own object, so
\* the assignment s_dict[k] = np.flip(v) is seen by the caller afterwards.
ExportToTouchstone ==
    /\ Len(files) < MaxExports
    /\ LET freq_in == FreqHz(wvl)
           freq_hz == FlippedFreq(freq_in)
           d == FlippedDict(s_dict, freq_in)
           s_matrix == BuildSMatrix(d, port_map, Len(freq_hz))
       IN /\ s_dict' = d
          /\ files' = Append(files, [frequency |-> freq_hz, s |-> s_matrix])
    /\ UNCHANGED <<wvl, port_map>>
    /\ UNCHANGED <<modeVars, interpVars, twinVars, runnerVars,
                 meshVars, sparVars, concVars>>

ExportNext == ExportToTouchstone

(***************************************************************************)
(* fem_utils.py : WaveguideTemplate.solve_modes / solve_coupler            *)
(* Effective indices and material indices are integers in units of 1e-5;   *)
(* only the real part of an index is read by the code (np.real).           *)
(***************************************************************************)
\* 1e-4, the margin above the cutoff index
GuidedEps == 10
\* compute_modes(..., num_modes=4) in solve_coupler
CouplerNumModes == 4

NeffVals == {144000, 144405, 144410, 144411, 160000, 310000, 340000}
\* <<n_clad, n_box>>
Templates == {<<144400, 144000>>, <<100000, 144400>>, <<144000, 144000>>}

NoModesRet == [op |-> "none", raised |-> "none", modes |-> <<>>, pair |-> <<>>]

\* The mode objects compute_modes returns, in the solver's order.
SolverModes(neffs) == [i \in 1..Len(neffs) |-> [id |-> i, n_eff |-> neffs[i]]]

\* Mutant of InsertDesc: the modes are sorted ascending.
InsertAsc(sorted, m) ==
    LET k == Cardinality({i \in DOMAIN sorted : sorted[i].n_eff <= m.n_eff})
    IN SubSeq(sorted, 1, k) \o <<m>> \o SubSeq(sorted, k + 1, Len(sorted))

\* One step of the stable sort: m goes after every mode whose key is >= its own.
InsertDesc(sorted, m) ==
    LET k == Cardinality({i \in DOMAIN sorted : sorted[i].n_eff >= m.n_eff})
    IN SubSeq(sorted, 1, k) \o <<m>> \o SubSeq(sorted, k + 1, Len(sorted))

\* sorted(modes, key=lambda m: np.real(m.n_eff), reverse=True)
RECURSIVE SortedDesc(_)
SortedDesc(ms) ==
    IF ms = <<>> THEN <<>>
    ELSE InsertDesc(SortedDesc(SubSeq(ms, 1, Len(ms) - 1)), ms[Len(ms)])

\* cutoff_index = max(np.real(self.n_clad), np.real(self.n_box))
CutoffIndex(clad, box) == IF clad >= box THEN clad ELSE box

\* Mutant of IsGuided: the 1e-4 margin is left out.
IsGuidedNoMargin(m, cutoff) == m.n_eff > cutoff

\* np.real(m.n_eff) > cutoff_index + 1e-4
IsGuided(m, cutoff) == m.n_eff > cutoff + GuidedEps

\* [m for m in modes if np.real(m.n_eff) > cutoff_index + 1e-4]
GuidedModes(ms, cutoff) == SelectSeq(ms, LAMBDA m : IsGuided(m, cutoff))

\* if len(guided) < 2
TooFewGuided(guided) == Len(guided) < 2

\* Mutant of CouplerResult: the two indices are returned in the other order.
CouplerResultSwapped(guided) == <<guided[2].n_eff, guided[1].n_eff>>

\* return np.real(guided[0].n_eff), np.real(guided[1].n_eff)
CouplerResult(guided) == <<guided[1].n_eff, guided[2].n_eff>>

ModesIdle ==
    /\ n_clad = 0
    /\ n_box = 0
    /\ modesIn = <<>>
    /\ modesRet = NoModesRet

ModesInit ==
    /\ \E t \in Templates : n_clad = t[1] /\ n_box = t[2]
    /\ modesIn \in SeqsUpTo(NeffVals, MaxModes)
    /\ modesRet = NoModesRet

\* solve_modes(width, wavelength, num_modes, perturbation_func): the solver
\* returns modesIn; the method returns the guided ones, sorted.
SolveModes ==
    /\ LET modes == SortedDesc(SolverModes(modesIn))
           cutoff_index == CutoffIndex(n_clad, n_box)
       IN modesRet' = [op |-> "solve_modes", raised |-> "none",
                       modes |-> GuidedModes(modes, cutoff_index), pair |-> <<>>]
    /\ UNCHANGED <<n_clad, n_box, modesIn>>
    /\ UNCHANGED <<exportVars, interpVars, twinVars, runnerVars,
                 meshVars, sparVars, concVars>>

\* solve_coupler(width, gap, wavelength): four modes are requested.
SolveCoupler ==
    /\ Len(modesIn) <= CouplerNumModes
    /\ LET modes == SortedDesc(SolverModes(modesIn))
           cutoff == CutoffIndex(n_clad, n_box)
           guided == GuidedModes(modes, cutoff)
       IN modesRet' =
            IF TooFewGuided(guided)
            THEN [op |-> "solve_coupler", raised |-> "ValueError",
                  modes |-> <<>>, pair |-> <<>>]
            ELSE [op |-> "solve_coupler", raised |-> "none", modes |-> <<>>,
                  pair |-> CouplerResult(guided)]
    /\ UNCHANGED <<n_clad, n_box, modesIn>>
    /\ UNCHANGED <<exportVars, interpVars, twinVars, runnerVars,
                 meshVars, sparVars, concVars>>

ModesNext == SolveModes \/ SolveCoupler

(***************************************************************************)
(* general_utils.py : interpolate_design_parameter                         *)
(* A float is [kind, v]: kind "finite" with an integer v, or "nan", "inf", *)
(* "-inf".  The interpolant is scipy's interp1d for kind='linear'; its     *)
(* value is an exact reduced fraction <<num, den>>.                        *)
(***************************************************************************)
RECURSIVE GCD(_, _)
GCD(a, b) == IF b = 0 THEN a ELSE GCD(b, a % b)
Abs(a) == IF a < 0 THEN -a ELSE a

\* a / b in exact arithmetic, for b # 0
Frac(a, b) ==
    LET g == GCD(Abs(a), Abs(b))
        sgn == IF b < 0 THEN -1 ELSE 1
    IN <<sgn * (a \div g), sgn * (b \div g)>>

Finite(v) == [kind |-> "finite", v |-> v]
FloatVals == {Finite(1), Finite(3), [kind |-> "nan", v |-> 0],
              [kind |-> "inf", v |-> 0], [kind |-> "-inf", v |-> 0]}
XVals == 1..(MaxSamples + 1)
TargetVals == {0, 2, 3}

\* np.isfinite
IsFinite(y) == y.kind = "finite"

\* x[mask]: the elements of xs at the positions where ys is finite
RECURSIVE Masked(_, _)
Masked(xs, ys) ==
    IF xs = <<>> THEN <<>>
    ELSE LET rest == Masked(SubSeq(xs, 1, Len(xs) - 1), SubSeq(ys, 1, Len(ys) - 1))
         IN IF IsFinite(ys[Len(ys)]) THEN Append(rest, xs[Len(xs)]) ELSE rest

\* Mutant of InsufficientData: a single valid point is accepted.
InsufficientDataOffByOne(x_clean) == Len(x_clean) < 1

\* if len(x_clean) < 2
InsufficientData(x_clean) == Len(x_clean) < 2

\* target_x < x_clean.min() or target_x > x_clean.max()
OutOfRange(x_clean, t) ==
    \/ \A i \in DOMAIN x_clean : t < x_clean[i]
    \/ \A i \in DOMAIN x_clean : t > x_clean[i]

NoValue == <<0, 0>>

\* interp1d(x_clean, y_clean, kind='linear', fill_value="extrapolate")(t) for
\* an ascending x_clean: the segment around t, or the first / last one.
Interp1d(x_clean, y_clean, t) ==
    IF Len(x_clean) < 2 THEN NoValue
    ELSE LET n == Len(x_clean)
             inside == {i \in 1..(n - 1) : x_clean[i] <= t /\ t <= x_clean[i + 1]}
             i == IF inside # {} THEN CHOOSE k \in inside : \A l \in inside : k <= l
                  ELSE IF t < x_clean[1] THEN 1 ELSE n - 1
             dx == x_clean[i + 1] - x_clean[i]
         IN Frac(y_clean[i].v * dx + (y_clean[i + 1].v - y_clean[i].v) * (t - x_clean[i]), dx)

NoInterpRet == [called |-> FALSE, raised |-> "none", warned |-> FALSE,
                interp1d_calls |-> 0, value |-> NoValue]

InterpIdle ==
    /\ x_sweep = <<>>
    /\ y_sweep = <<>>
    /\ target_x = 0
    /\ interpRet = NoInterpRet

\* A sweep: distinct ascending parameter values, one result per value.
InterpInit ==
    /\ x_sweep \in {x \in SeqsUpTo(XVals, MaxSamples) : StrictlyAscending(x)}
    /\ y_sweep \in [1..Len(x_sweep) -> FloatVals]
    /\ target_x \in TargetVals
    /\ interpRet = NoInterpRet

InterpolateDesignParameter ==
    /\ LET x_clean == Masked(x_sweep, y_sweep)
           y_clean == Masked(y_sweep, y_sweep)
       IN interpRet' =
            IF InsufficientData(x_clean)
            THEN [called |-> TRUE, raised |-> "ValueError", warned |-> FALSE,
                  interp1d_calls |-> 0, value |-> NoValue]
            ELSE [called |-> TRUE, raised |-> "none",
                  warned |-> OutOfRange(x_clean, target_x),
                  interp1d_calls |-> 1,
                  value |-> Interp1d(x_clean, y_clean, target_x)]
    /\ UNCHANGED <<x_sweep, y_sweep, target_x>>
    /\ UNCHANGED <<exportVars, modeVars, twinVars, runnerVars,
                 meshVars, sparVars, concVars>>

InterpNext == InterpolateDesignParameter

(***************************************************************************)
(* digital_twins/base.py : GDSFactoryTwin, with its subclasses of dc.py    *)
(* and mmi.py.  A layout object is identified by the order of its          *)
(* creation; None is 0.                                                    *)
(***************************************************************************)
None == 0
Twins == {"DirectionalCouplerTwin", "MMI1x2Twin", "MMI2x2Twin"}
Accessors == {"get_component", "get_geometry", "get_ports", "get_bounds"}

\* Mutant of NeedsBuild: the cache is not consulted.
NeedsBuildAlways(c) == TRUE

\* if self._component is None
NeedsBuild(c) == c = None

\* self._build_component(): gdsfactory returns a layout object
BuildComponent(made) == made + 1

TwinIdle ==
    /\ component = [t \in Twins |-> None]
    /\ builds = [t \in Twins |-> 0]
    /\ layouts = 0
    /\ used = [t \in Twins |-> [a \in Accessors |-> None]]

\* GDSFactoryTwin.__init__: self._component = None
TwinInit == TwinIdle

\* get_component(): build on the first access, then return the cached object
CallGetComponent(t) ==
    IF NeedsBuild(component[t])
    THEN /\ layouts < MaxLayouts
         /\ layouts' = BuildComponent(layouts)
         /\ builds' = [builds EXCEPT ![t] = @ + 1]
         /\ component' = [component EXCEPT ![t] = BuildComponent(layouts)]
    ELSE UNCHANGED <<component, builds, layouts>>

\* twin.get_component()
GetComponent(t) ==
    /\ CallGetComponent(t)
    /\ used' = [used EXCEPT ![t]["get_component"] = component'[t]]
    /\ UNCHANGED <<exportVars, modeVars, interpVars, runnerVars,
                 meshVars, sparVars, concVars>>

\* twin.get_geometry(mat_core, mat_clad): c = self.get_component().copy(),
\* the polygons of the copy become prisms
GetGeometry(t) ==
    /\ CallGetComponent(t)
    /\ used' = [used EXCEPT ![t]["get_geometry"] = component'[t]]
    /\ UNCHANGED <<exportVars, modeVars, interpVars, runnerVars,
                 meshVars, sparVars, concVars>>

\* twin.get_ports(): the ports of self.get_component()
GetPorts(t) ==
    /\ CallGetComponent(t)
    /\ used' = [used EXCEPT ![t]["get_ports"] = component'[t]]
    /\ UNCHANGED <<exportVars, modeVars, interpVars, runnerVars,
                 meshVars, sparVars, concVars>>

\* twin.get_bounds(): the bounding box of self.get_component()
GetBounds(t) ==
    /\ CallGetComponent(t)
    /\ used' = [used EXCEPT ![t]["get_bounds"] = component'[t]]
    /\ UNCHANGED <<exportVars, modeVars, interpVars, runnerVars,
                 meshVars, sparVars, concVars>>

TwinNext ==
    \E t \in Twins :
        \/ GetComponent(t)
        \/ GetGeometry(t)
        \/ GetPorts(t)
        \/ GetBounds(t)

(***************************************************************************)
(* meep_utils/runner.py : MeepRunner                                       *)
(* An mp.Simulation object is identified by the order of its construction. *)
(* A wavelength is an integer number of nm, a frequency FreqScale \div     *)
(* wavelength; a flux is an integer; a transmission is an exact fraction   *)
(* <<num, den>>, with den = 0 for numpy's inf (num # 0) and nan (num = 0). *)
(***************************************************************************)
FreqScale == 1000000000
WavelengthsNm == {1310, 1550}
FluxVals == {-1, 0, 1, 2}

RunnerTwins == {"StraightCouplerTwin", "MMI1x2Twin", "ReversedTwin",
                "InputOnlyTwin", "NoInputTwin"}

Port(name, x) == [name |-> name, x |-> x]

\* StraightCouplerTwin.get_ports: x_in, x_out = -length / 2, length / 2
StraightPorts(length) ==
    LET x_in == -(length \div 2)
        x_out == length \div 2
    IN <<Port("o1", x_in), Port("o2", x_in), Port("o3", x_out), Port("o4", x_out)>>

\* component.get_ports(), in the order of the dictionary, with center.x.
\* Besides the repository's twins: a twin fed from the right, a twin with
\* the input port only, and a twin without an 'o1' port.
PortsOf(c) ==
    CASE c = "StraightCouplerTwin" -> StraightPorts(2)
      [] c = "MMI1x2Twin" -> <<Port("o1", -2), Port("o2", 2), Port("o3", 2)>>
      [] c = "ReversedTwin" -> <<Port("o1", 1), Port("o2", -1)>>
      [] c = "InputOnlyTwin" -> <<Port("o1", 0)>>
      [] c = "NoInputTwin" -> <<Port("o2", 1)>>

PortNamesOf(ports) == [i \in 1..Len(ports) |-> ports[i].name]

\* "o1" in ports
HasInput(ports) == \E i \in DOMAIN ports : ports[i].name = "o1"

\* {name: ... for name, p in ports.items() if name != "o1"}
MonitoredNames(ports) == SelectSeq(PortNamesOf(ports), LAMBDA n : n # "o1")

\* max(component.get_ports().values(), key=lambda p: p['center'].x): the
\* first port of the largest x
FurthestPort(ports) ==
    LET i == CHOOSE k \in DOMAIN ports :
                 /\ \A l \in DOMAIN ports : ports[l].x <= ports[k].x
                 /\ \A l \in 1..(k - 1) : ports[l].x < ports[k].x
    IN ports[i].name

\* fcen = 1 / wavelength
CenterFreq(wavelength) == FreqScale \div wavelength

\* df = bandwidth * fcen, for the default bandwidth 0.1
FreqWidth(fcen) == fcen \div 10

\* mp.get_flux_freqs of a monitor added with add_flux(fcen, df, nfreq, ...)
FluxFreqs(fcen, df) ==
    [i \in 1..NFreq |->
        IF NFreq = 1 THEN fcen
        ELSE (fcen - df \div 2) + ((i - 1) * df) \div (NFreq - 1)]

\* wl = 1.0 / freqs
WavelengthsOf(freqs) == [i \in 1..Len(freqs) |-> FreqScale \div freqs[i]]

\* Mutant of StoredSim: the reference is stored after the setup_only return.
StoredSimAfterReturn(old, new, setup_only) == IF setup_only THEN old ELSE new

\* self.sim = sim  # Store reference
StoredSim(old, new, setup_only) == new

\* _build_sim(component, wavelength, bandwidth, setup_only) with made
\* simulations constructed before it: KeyError at ports["o1"], or a new
\* simulation and its monitors.
BuildSim(c, wavelength, setup_only, made) ==
    LET ports == PortsOf(c)
        fcen == CenterFreq(wavelength)
    IN IF ~HasInput(ports)
       THEN [raised |-> "KeyError", sim |-> None, monitors |-> <<>>, freqs |-> <<>>]
       ELSE [raised |-> "none", sim |-> made + 1,
             monitors |-> IF setup_only THEN <<>> ELSE MonitoredNames(ports),
             freqs |-> IF setup_only THEN <<>> ELSE FluxFreqs(fcen, FreqWidth(fcen))]

\* total_power += p_data, at frequency point i
RECURSIVE TotalPower(_, _)
TotalPower(fluxes, i) ==
    IF fluxes = <<>> THEN 0
    ELSE TotalPower(SubSeq(fluxes, 1, Len(fluxes) - 1), i) + fluxes[Len(fluxes)][i]

\* Mutant of GuardedTotal: the zero total is not replaced.
GuardedTotalUnguarded(total) == total

\* total_power[total_power == 0] = 1.0
GuardedTotal(total) == IF total = 0 THEN 1 ELSE total

\* data / total_power, as numpy divides floats
Divide(a, b) ==
    IF b # 0 THEN Frac(a, b)
    ELSE IF a = 0 THEN <<0, 0>> ELSE IF a > 0 THEN <<1, 0>> ELSE <<-1, 0>>

\* s_params = {name: data / total_power for name, data in raw_flux.items()}
Normalized(fluxes) ==
    [k \in 1..Len(fluxes) |->
        [i \in 1..NFreq |-> Divide(fluxes[k][i], GuardedTotal(TotalPower(fluxes, i)))]]

\* A dictionary {name: array} from the names and the arrays in their order
DictOf(names, arrays) ==
    [n \in {names[k] : k \in DOMAIN names} |->
        arrays[CHOOSE k \in DOMAIN names : names[k] = n]]

NoFrame == [comp |-> "", sim |-> None, monitors |-> <<>>, freqs |-> <<>>,
            furthest |-> "", raw_flux |-> <<>>]
NoRet == [op |-> "none", raised |-> "none", comp |-> "", sim |-> None,
          furthest |-> "", wl |-> <<>>, raw_flux |-> <<>>, s_params |-> <<>>]

\* MeepRunner.__init__: self.sim = None
RunnerInit ==
    /\ sim = None
    /\ simCount = 0
    /\ pc = "idle"
    /\ frame = NoFrame
    /\ ret = NoRet

\* plot_structure(component): _build_sim(component, setup_only=True) with the
\* default wavelength, then self.sim.plot2D()
PlotStructure(c) ==
    /\ pc = "idle"
    /\ LET b == BuildSim(c, 1550, TRUE, simCount)
       IN IF b.raised # "none"
          THEN /\ ret' = [NoRet EXCEPT !.op = "plot_structure", !.raised = b.raised,
                                       !.comp = c]
               /\ UNCHANGED <<sim, simCount>>
          ELSE /\ simCount < MaxSims
               /\ simCount' = b.sim
               /\ sim' = StoredSim(sim, b.sim, TRUE)
               /\ ret' = [NoRet EXCEPT !.op = "plot_structure", !.comp = c,
                                       !.sim = sim']
    /\ UNCHANGED <<pc, frame>>
    /\ UNCHANGED <<exportVars, modeVars, interpVars, twinVars,
                 meshVars, sparVars, concVars>>

\* visualize_fields(component, wavelength, time): _build_sim, sim.run(until=time),
\* sim.plot2D(...) on the simulation just built
VisualizeFields(c, w) ==
    /\ pc = "idle"
    /\ LET b == BuildSim(c, w, FALSE, simCount)
       IN IF b.raised # "none"
          THEN /\ ret' = [NoRet EXCEPT !.op = "visualize_fields", !.raised = b.raised,
                                       !.comp = c]
               /\ UNCHANGED <<sim, simCount>>
          ELSE /\ simCount < MaxSims
               /\ simCount' = b.sim
               /\ sim' = StoredSim(sim, b.sim, FALSE)
               /\ ret' = [NoRet EXCEPT !.op = "visualize_fields", !.comp = c,
                                       !.sim = b.sim]
    /\ UNCHANGED <<pc, frame>>
    /\ UNCHANGED <<exportVars, modeVars, interpVars, twinVars,
                 meshVars, sparVars, concVars>>

\* visualize_last_run(): plots self.sim if there is one
VisualizeLastRun ==
    /\ pc = "idle"
    /\ ret' = [NoRet EXCEPT !.op = "visualize_last_run", !.sim = sim]
    /\ UNCHANGED <<sim, simCount, pc, frame>>
    /\ UNCHANGED <<exportVars, modeVars, interpVars, twinVars,
                 meshVars, sparVars, concVars>>

\* simulate_component(component, wavelength, bandwidth), up to the reading of
\* the monitors: _build_sim, the furthest port, sim.run(...) until the fields
\* have decayed there, and the frequency points of the first monitor
\* (StopIteration when there is no monitor).
SimulateComponent(c, w) ==
    /\ pc = "idle"
    /\ LET b == BuildSim(c, w, FALSE, simCount)
           furthest_port == FurthestPort(PortsOf(c))
       IN IF b.raised # "none"
          THEN /\ ret' = [NoRet EXCEPT !.op = "simulate_component",
                                       !.raised = b.raised, !.comp = c]
               /\ UNCHANGED <<sim, simCount, pc, frame>>
          ELSE /\ simCount < MaxSims
               /\ simCount' = b.sim
               /\ sim' = StoredSim(sim, b.sim, FALSE)
               /\ IF b.monitors = <<>>
                  THEN /\ ret' = [NoRet EXCEPT !.op = "simulate_component",
                                               !.raised = "StopIteration",
                                               !.comp = c, !.sim = b.sim,
                                               !.furthest = furthest_port]
                       /\ UNCHANGED <<pc, frame>>
                  ELSE /\ frame' = [comp |-> c, sim |-> b.sim,
                                    monitors |-> b.monitors, freqs |-> b.freqs,
                                    furthest |-> furthest_port, raw_flux |-> <<>>]
                       /\ pc' = "flux"
                       /\ ret' = NoRet
    /\ UNCHANGED <<exportVars, modeVars, interpVars, twinVars,
                 meshVars, sparVars, concVars>>

\* raw_flux = {name: np.array(mp.get_fluxes(mon)) for name, mon in
\* monitors.items()}: the next monitor reports a signed flux per frequency point
ReadFlux ==
    /\ pc = "flux"
    /\ \E data \in [1..NFreq -> FluxVals] :
          frame' = [frame EXCEPT !.raw_flux = Append(@, data)]
    /\ pc' = IF Len(frame'.raw_flux) = Len(frame.monitors) THEN "normalize" ELSE "flux"
    /\ UNCHANGED <<sim, simCount, ret>>
    /\ UNCHANGED <<exportVars, modeVars, interpVars, twinVars,
                 meshVars, sparVars, concVars>>

\* simulate_component, from the total power to the return
Normalize ==
    /\ pc = "normalize"
    /\ ret' = [op |-> "simulate_component", raised |-> "none",
               comp |-> frame.comp, sim |-> frame.sim,
               furthest |-> frame.furthest,
               wl |-> WavelengthsOf(frame.freqs),
               raw_flux |-> DictOf(frame.monitors, frame.raw_flux),
               s_params |-> DictOf(frame.monitors, Normalized(frame.raw_flux))]
    /\ frame' = NoFrame
    /\ pc' = "idle"
    /\ UNCHANGED <<sim, simCount>>
    /\ UNCHANGED <<exportVars, modeVars, interpVars, twinVars,
                 meshVars, sparVars, concVars>>

RunnerNext ==
    \/ \E c \in RunnerTwins : PlotStructure(c)
    \/ \E c \in RunnerTwins, w \in WavelengthsNm : VisualizeFields(c, w)
    \/ VisualizeLastRun
    \/ \E c \in RunnerTwins, w \in WavelengthsNm : SimulateComponent(c, w)
    \/ ReadFlux
    \/ Normalize

(***************************************************************************)
(* WaveguideTemplate.create_coupler_mesh (src/utils/fem_utils.py)          *)
(* Lengths are integers in units of 0.01 micron.                           *)
(***************************************************************************)
\* the literal 4.0 of "2 * offset + 4.0"
ExpandMargin == 400
\* WaveguideTemplate.__init__ defaults: thickness=0.22, clad_height=4.0
thickness == 22
clad_height == 400

\* Arguments and template settings the model draws from; every value is even,
\* so that the halves the code takes are exact.
WidthVals == {40, 50, 100, 200}
GapVals == {0, 20, 100, 300}
DomainWidthVals == {300, 700, 1200}
SlabVals == {0, 8}

Max(a, b) == IF a >= b THEN a ELSE b

\* shapely.geometry.box(minx, miny, maxx, maxy)
box(minx, miny, maxx, maxy) ==
    [minx |-> minx, miny |-> miny, maxx |-> maxx, maxy |-> maxy]

\* shapely.ops.clip_by_rect of a box: a bound of None does not clip
ClipBelow(b, ymax) == [b EXCEPT !.maxy = IF b.maxy > ymax THEN ymax ELSE b.maxy]
ClipAbove(b, ymin) == [b EXCEPT !.miny = IF b.miny < ymin THEN ymin ELSE b.miny]

\* offset = (gap + width) / 2
Offset(w, g) == (g + w) \div 2

\* sim_width = domain_width alone: the domain is never widened
SimWidthFixed(dw, offset) == dw

\* sim_width = max(self.domain_width, 2 * offset + 4.0)
SimWidth(dw, offset) == Max(dw, 2 * offset + ExpandMargin)

NoShape == [minx |-> 0, miny |-> 0, maxx |-> 0, maxy |-> 0]
NoPolygons == [core |-> <<>>, slab |-> NoShape, box |-> NoShape,
               clad_top |-> NoShape]

\* The OrderedDict of polygons handed to the mesher: the two cores, the slab
\* when slab_thickness > 0, and the simulation box cut at y = 0.
CouplerPolygons(dw, st, w, g) ==
    LET offset == Offset(w, g)
        core_left == box(-offset - w \div 2, -(thickness \div 2),
                         -offset + w \div 2, thickness \div 2)
        core_right == box(offset - w \div 2, -(thickness \div 2),
                          offset + w \div 2, thickness \div 2)
        sim_width == SimWidth(dw, offset)
        sim_box == box(-(sim_width \div 2), -(clad_height \div 2),
                       sim_width \div 2, clad_height \div 2)
        slab == box(-(sim_width \div 2), -(thickness \div 2),
                    sim_width \div 2, -(thickness \div 2) + st)
    IN [core |-> <<core_left, core_right>>,
        slab |-> IF st > 0 THEN slab ELSE NoShape,
        box |-> ClipBelow(sim_box, 0),
        clad_top |-> ClipAbove(sim_box, 0)]

MeshIdle ==
    /\ domain_width = 0
    /\ slab_thickness = 0
    /\ width = 0
    /\ gap = 0
    /\ polygons = NoPolygons

MeshInit ==
    /\ domain_width \in DomainWidthVals
    /\ slab_thickness \in SlabVals
    /\ width \in WidthVals
    /\ gap \in GapVals
    /\ polygons = NoPolygons

\* create_coupler_mesh(width, gap)
CreateCouplerMesh ==
    /\ polygons' = CouplerPolygons(domain_width, slab_thickness, width, gap)
    /\ UNCHANGED <<domain_width, slab_thickness, width, gap>>
    /\ UNCHANGED <<exportVars, modeVars, interpVars, twinVars, runnerVars,
                   sparVars, concVars>>

MeshNext == CreateCouplerMesh

(***************************************************************************)
(* SParameterExporter.get_complex_s_params (src/utils/export_utils.py)     *)
(* Transmissions are integers in units of 1/16, magnitudes in units of     *)
(* 1/4, phases in quarter turns (pi/2); a complex number is a record of    *)
(* its real and imaginary part.                                            *)
(***************************************************************************)
TVals == {-16, -4, 0, 1, 4, 16}
PhaseVals == 0 .. 3

\* np.sqrt of a non-negative number: the root, exact on the squares
Sqrt(n) == CHOOSE r \in 0 .. n : r * r <= n /\ (r + 1) * (r + 1) > n

\* np.exp(1j * phase)
Cexp(k) ==
    CASE k % 4 = 0 -> [re |-> 1, im |-> 0]
      [] k % 4 = 1 -> [re |-> 0, im |-> 1]
      [] k % 4 = 2 -> [re |-> -1, im |-> 0]
      [] OTHER -> [re |-> 0, im |-> -1]

\* a real number times a complex number
Scale(r, z) == [re |-> r * z.re, im |-> r * z.im]

\* np.angle of a number on an axis, in quarter turns; the angle of 0 is 0
Angle(z) ==
    CASE z.im > 0 -> 1
      [] z.im < 0 -> -1
      [] z.re < 0 -> 2
      [] OTHER -> 0

\* abs(z) ** 2
AbsSquared(z) == z.re * z.re + z.im * z.im

\* magnitude = np.abs(T_linear): the root is not taken
MagnitudeNoRoot(t) == Abs(t)

\* magnitude = np.sqrt(np.abs(T_linear))
Magnitude(t) == Sqrt(Abs(t))

NoPhase == [given |-> FALSE, v |-> <<>>]

\* phase_rad = np.zeros_like(T_linear) when phase_rad is None
PhaseOrZeros(phase, T) ==
    IF phase.given THEN phase.v ELSE [i \in 1 .. Len(T) |-> 0]

\* magnitude * np.exp(1j * phase_rad), elementwise
ComplexSParams(T, phase) ==
    LET ph == PhaseOrZeros(phase, T)
    IN [i \in 1 .. Len(T) |-> Scale(Magnitude(T[i]), Cexp(ph[i]))]

NoSRet == [called |-> FALSE, S |-> <<>>]

SparIdle ==
    /\ T_linear = <<>>
    /\ phase_rad = NoPhase
    /\ sRet = NoSRet

\* A phase array, when supplied, has the shape of T_linear.
SparInit ==
    /\ T_linear \in SeqsUpTo(TVals, MaxPoints)
    /\ \/ phase_rad = NoPhase
       \/ \E v \in SeqsUpTo(PhaseVals, MaxPoints) :
              /\ Len(v) = Len(T_linear)
              /\ phase_rad = [given |-> TRUE, v |-> v]
    /\ sRet = NoSRet

\* get_complex_s_params(wvl, T_linear, phase_rad)
GetComplexSParams ==
    /\ sRet' = [called |-> TRUE, S |-> ComplexSParams(T_linear, phase_rad)]
    /\ UNCHANGED <<T_linear, phase_rad>>
    /\ UNCHANGED <<exportVars, modeVars, interpVars, twinVars, runnerVars,
                   meshVars, concVars>>

SparNext == GetComplexSParams

(***************************************************************************)
(* Two simulate_component calls interleaving on one MeepRunner             *)
(* (src/utils/meep_utils/runner.py). A call's sim and monitors are local   *)
(* variables; self.sim is the runner's attribute. A step is what a call    *)
(* does between two accesses to something another call can reach.          *)
(***************************************************************************)
Threads == {1, 2}
ConcTwins == {"MMI1x2Twin", "ReversedTwin"}
ConcFluxVals == {1, 2}

NoConcRet == [wl |-> <<>>, raw_flux |-> <<>>, s_params |-> <<>>]
NoCall == [pc |-> "idle", comp |-> "", wavelength |-> 0, sim |-> None,
           ran |-> None, ret |-> NoConcRet]

\* The simulation a call works on is the one self._build_sim returned to it;
\* here it is the runner's self.sim instead.
CallSimShared(local, shared) == shared

\* sim, monitors = self._build_sim(component, wavelength, bandwidth)
CallSim(local, shared) == local

\* The flux monitors of a simulation: their port names, their frequency
\* points and the flux each has accumulated (zero until the simulation ran)
MonitorsOf(c, wavelength) ==
    LET names == MonitoredNames(PortsOf(c))
        fcen == CenterFreq(wavelength)
    IN [names |-> names,
        freqs |-> FluxFreqs(fcen, FreqWidth(fcen)),
        flux |-> [k \in 1 .. Len(names) |-> [i \in 1 .. NFreq |-> 0]]]

NoMonitors == [names |-> <<>>, freqs |-> <<>>, flux |-> <<>>]

ConcIdle ==
    /\ calls = [t \in Threads |-> NoCall]
    /\ simFlux = <<>>
    /\ stored = <<>>

ConcInit == ConcIdle

\* _build_sim, up to sim = mp.Simulation(...): a new simulation object, held
\* in the call's local variable only
ConcConstruct(t, c, w) ==
    /\ calls[t].pc = "idle"
    /\ simCount' = simCount + 1
    /\ simFlux' = Append(simFlux, NoMonitors)
    /\ calls' = [calls EXCEPT ![t] = [NoCall EXCEPT !.pc = "store", !.comp = c,
                                                    !.wavelength = w,
                                                    !.sim = simCount + 1]]
    /\ UNCHANGED <<sim, pc, frame, ret, stored>>
    /\ UNCHANGED <<exportVars, modeVars, interpVars, twinVars, meshVars, sparVars>>

\* _build_sim, from self.sim = sim to its return: the reference is stored and
\* the monitors are added to the call's own simulation
ConcStore(t) ==
    /\ calls[t].pc = "store"
    /\ sim' = StoredSim(sim, calls[t].sim, FALSE)
    /\ stored' = Append(stored, t)
    /\ simFlux' = [simFlux EXCEPT ![calls[t].sim] =
                       MonitorsOf(calls[t].comp, calls[t].wavelength)]
    /\ calls' = [calls EXCEPT ![t].pc = "run"]
    /\ UNCHANGED <<simCount, pc, frame, ret>>
    /\ UNCHANGED <<exportVars, modeVars, interpVars, twinVars, meshVars, sparVars>>

\* sim.run(until_after_sources=...): the monitors of the simulation that is
\* run accumulate a flux per frequency point
ConcRun(t) ==
    /\ calls[t].pc = "run"
    /\ LET target == CallSim(calls[t].sim, sim)
       IN /\ \E table \in [1 .. Len(simFlux[target].names) ->
                              [1 .. NFreq -> ConcFluxVals]] :
                 simFlux' = [simFlux EXCEPT ![target].flux = table]
          /\ calls' = [calls EXCEPT ![t].pc = "extract", ![t].ran = target]
    /\ UNCHANGED <<sim, simCount, pc, frame, ret, stored>>
    /\ UNCHANGED <<exportVars, modeVars, interpVars, twinVars, meshVars, sparVars>>

\* simulate_component, from freqs = mp.get_flux_freqs(...) to the return: the
\* frequency points and the fluxes are read from the monitors, normalised
\* and returned
ConcExtract(t) ==
    /\ calls[t].pc = "extract"
    /\ LET mon == simFlux[CallSim(calls[t].sim, sim)]
       IN calls' = [calls EXCEPT ![t].pc = "done",
                        ![t].ret = [wl |-> WavelengthsOf(mon.freqs),
                                    raw_flux |-> DictOf(mon.names, mon.flux),
                                    s_params |-> DictOf(mon.names,
                                                        Normalized(mon.flux))]]
    /\ UNCHANGED <<sim, simCount, pc, frame, ret, simFlux, stored>>
    /\ UNCHANGED <<exportVars, modeVars, interpVars, twinVars, meshVars, sparVars>>

ConcNext ==
    \/ \E t \in Threads, c \in ConcTwins, w \in WavelengthsNm : ConcConstruct(t, c, w)
    \/ \E t \in Threads : ConcStore(t)
    \/ \E t \in Threads : ConcRun(t)
    \/ \E t \in Threads : ConcExtract(t)

(***************************************************************************)
(* Specifications, one per subsystem                                       *)
(***************************************************************************)
InitExportOnly == ExportInit /\ ModesIdle /\ InterpIdle /\ TwinIdle /\ RunnerInit
    /\ MeshIdle /\ SparIdle /\ ConcIdle
InitModesOnly == ModesInit /\ ExportIdle /\ InterpIdle /\ TwinIdle /\ RunnerInit
    /\ MeshIdle /\ SparIdle /\ ConcIdle
InitInterpOnly == InterpInit /\ ExportIdle /\ ModesIdle /\ TwinIdle /\ RunnerInit
    /\ MeshIdle /\ SparIdle /\ ConcIdle
InitTwinOnly == TwinInit /\ ExportIdle /\ ModesIdle /\ InterpIdle /\ RunnerInit
    /\ MeshIdle /\ SparIdle /\ ConcIdle
InitRunnerOnly == RunnerInit /\ ExportIdle /\ ModesIdle /\ InterpIdle /\ TwinIdle
    /\ MeshIdle /\ SparIdle /\ ConcIdle
InitMeshOnly == MeshInit /\ ExportIdle /\ ModesIdle /\ InterpIdle /\ TwinIdle
    /\ RunnerInit /\ SparIdle /\ ConcIdle
InitSParamsOnly == SparInit /\ ExportIdle /\ ModesIdle /\ InterpIdle /\ TwinIdle
    /\ RunnerInit /\ MeshIdle /\ ConcIdle
InitConcurrentOnly == ConcInit /\ ExportIdle /\ ModesIdle /\ InterpIdle /\ TwinIdle
    /\ RunnerInit /\ MeshIdle /\ SparIdle

SpecExport == InitExportOnly /\ [][ExportNext]_vars
SpecModes == InitModesOnly /\ [][ModesNext]_vars
SpecInterp == InitInterpOnly /\ [][InterpNext]_vars
SpecTwin == InitTwinOnly /\ [][TwinNext]_vars
SpecRunner == InitRunnerOnly /\ [][RunnerNext]_vars
SpecMesh == InitMeshOnly /\ [][MeshNext]_vars
SpecSParams == InitSParamsOnly /\ [][SparNext]_vars
SpecConcurrent == InitConcurrentOnly /\ [][ConcNext]_vars

(***************************************************************************)
(* Claims about export_to_touchstone                                       *)
(***************************************************************************)
\* Position of a name in a port list without repeats.
PosIn(pm, name) == CHOOSE i \in DOMAIN pm : pm[i] = name
NamesOf(pm) == {pm[i] : i \in DOMAIN pm}
Mapped(k, pm) == k[1] \in NamesOf(pm) /\ k[2] \in NamesOf(pm)
LastFile == files[Len(files)]

\* C1: whenever the frequency axis derived from wvl is descending, a call
\* writes a strictly ascending frequency axis, reverses every array of
\* s_dict, and for every mapped (in, out) pair the S value written at a
\* frequency is the value the caller supplied for the wavelength of that
\* frequency.  s_dict is the dictionary as supplied, files' the file written.
C1_FlipInLockstep ==
    [][(Len(files') = Len(files) + 1 /\ NeedsFlip(FreqHz(wvl))) =>
        LET out == files'[Len(files')]
            n == Len(wvl)
        IN /\ Len(out.frequency) = n
           /\ StrictlyAscending(out.frequency)
           /\ \A k \in DOMAIN s_dict : s_dict'[k] = Reverse(s_dict[k])
           /\ \A i \in 1..n : \A j \in 1..n :
                 out.frequency[i] = c_m_s \div wvl[j] =>
                    \A k \in DOMAIN s_dict :
                       Mapped(k, port_map) =>
                          out.s[i][PosIn(port_map, k[2])][PosIn(port_map, k[1])]
                             = s_dict[k][j]
    ]_vars

\* C1 witness: a file was written from a descending frequency axis with a
\* mapped entry whose array is not its own mirror image.
C1_Witness ==
    /\ Len(files) = 1
    /\ Len(wvl) >= 2
    /\ NeedsFlip(FreqHz(wvl))
    /\ \E k \in DOMAIN s_dict :
          Mapped(k, port_map) /\ s_dict[k][1] # s_dict[k][Len(wvl)]

\* C2: the matrix written has shape points x ports x ports; element
\* [f, index(p_out), index(p_in)] is the value at point f of the entry
\* (p_in, p_out) when both names are in port_map; every other element is
\* zero; entries with a name outside port_map change nothing and the call
\* still completes.
C2_SMatrix ==
    Len(files) >= 1 =>
        LET m == LastFile.s
            P == Len(port_map)
        IN /\ DOMAIN m = 1..Len(wvl)
           /\ \A f \in DOMAIN m :
                /\ DOMAIN m[f] = 1..P
                /\ \A i \in 1..P :
                     /\ DOMAIN m[f][i] = 1..P
                     /\ \A j \in 1..P :
                          LET src == {k \in DOMAIN s_dict :
                                         /\ Mapped(k, port_map)
                                         /\ PosIn(port_map, k[2]) = i
                                         /\ PosIn(port_map, k[1]) = j}
                          IN IF src = {} THEN m[f][i][j] = 0
                             ELSE \A k \in src : m[f][i][j] = s_dict[k][f]

\* C2 witness: a file written from a dictionary holding an off-diagonal
\* mapped entry and an entry with a port name outside port_map.
C2_Witness ==
    /\ Len(files) >= 1
    /\ Len(port_map) = 2
    /\ \E k \in DOMAIN s_dict : Mapped(k, port_map) /\ k[1] # k[2]
    /\ \E k \in DOMAIN s_dict : ~Mapped(k, port_map)

(***************************************************************************)
(* Claims about solve_modes and solve_coupler                              *)
(***************************************************************************)
\* The threshold as the claims state it: max(n_clad, n_box) + 1e-4.
ClaimThreshold == (IF n_clad > n_box THEN n_clad ELSE n_box) + 10
\* The solver modes (by position) whose effective index is above it.
ClaimGuided == {j \in DOMAIN modesIn : modesIn[j] > ClaimThreshold}
NeffsOf(ms) == [i \in 1..Len(ms) |-> ms[i].n_eff]

\* C6: solve_modes returns exactly the solver's modes whose real effective
\* index is strictly greater than max(n_clad, n_box) + 1e-4, each once, in
\* order of descending real effective index.
C6_GuidedSortedDesc ==
    modesRet.op = "solve_modes" =>
        LET out == modesRet.modes
        IN /\ modesRet.raised = "none"
           /\ \A i \in DOMAIN out :
                /\ out[i].id \in ClaimGuided
                /\ out[i].n_eff = modesIn[out[i].id]
           /\ \A j \in ClaimGuided :
                Cardinality({i \in DOMAIN out : out[i].id = j}) = 1
           /\ \A i \in 1..(Len(out) - 1) : out[i].n_eff >= out[i + 1].n_eff

\* C6 witness: solve_modes ran on an unsorted solver output holding guided
\* modes, a mode inside the 1e-4 margin and a mode exactly at the threshold.
C6_Witness ==
    /\ modesRet.op = "solve_modes"
    /\ Len(modesRet.modes) >= 2
    /\ \E i, j \in ClaimGuided : i < j /\ modesIn[i] < modesIn[j]
    /\ \E j \in DOMAIN modesIn :
          modesIn[j] > ClaimThreshold - 10 /\ modesIn[j] < ClaimThreshold
    /\ \E j \in DOMAIN modesIn : modesIn[j] = ClaimThreshold

\* The example of the spec: indices [3.4, 1.6, 1.44, 3.1], n_clad = 1.444,
\* n_box = 1.44.
C7_Example ==
    /\ modesIn = <<340000, 160000, 144000, 310000>>
    /\ n_clad = 144400
    /\ n_box = 144000
    /\ modesRet.op = "solve_modes"

\* C7 as stated: on the example the filter retains exactly two modes, 3.4
\* and 3.1, sorted descending.
C7_Original == C7_Example => NeffsOf(modesRet.modes) = <<340000, 310000>>

\* C7 amended: on the example the filter retains exactly three modes, 3.4,
\* 3.1 and 1.6 (1.6 is above 1.444 + 1e-4 too), sorted descending.
C7_Amended == C7_Example => NeffsOf(modesRet.modes) = <<340000, 310000, 160000>>

\* C7 witness: solve_modes has run on the example.
C7_Witness == C7_Example /\ Len(modesRet.modes) = 3

\* C8: solve_coupler raises ValueError whenever fewer than 2 of the solver's
\* modes are guided, and otherwise returns the real effective indices of the
\* two guided modes with the highest index, the larger one first.
C8_CouplerPair ==
    modesRet.op = "solve_coupler" =>
        IF Cardinality(ClaimGuided) < 2
        THEN modesRet.raised = "ValueError"
        ELSE /\ modesRet.raised = "none"
             /\ \E a, b \in ClaimGuided :
                  /\ a # b
                  /\ modesRet.pair = <<modesIn[a], modesIn[b]>>
                  /\ modesIn[a] >= modesIn[b]
                  /\ \A k \in ClaimGuided \ {a, b} : modesIn[k] <= modesIn[b]

\* C8 witness: solve_coupler raised on a solver output with exactly one
\* guided mode among several.
C8_Witness ==
    /\ modesRet.op = "solve_coupler"
    /\ modesRet.raised = "ValueError"
    /\ Cardinality(ClaimGuided) = 1
    /\ Len(modesIn) >= 2

(***************************************************************************)
(* Claims about interpolate_design_parameter                               *)
(***************************************************************************)
FiniteSamples == {i \in DOMAIN y_sweep : y_sweep[i].kind = "finite"}

\* C9: whenever fewer than 2 samples remain after the non-finite samples
\* (NaN, +inf, -inf in y_sweep) are masked out, the call raises ValueError,
\* and it raises before interp1d is called.
C9_RaisesBeforeInterp ==
    (interpRet.called /\ Cardinality(FiniteSamples) < 2) =>
        /\ interpRet.raised = "ValueError"
        /\ interpRet.interp1d_calls = 0

\* C9 witness: the call raised on a sweep of at least two samples of which
\* exactly one is finite.
C9_Witness ==
    /\ interpRet.called
    /\ interpRet.raised = "ValueError"
    /\ Len(y_sweep) >= 2
    /\ Cardinality(FiniteSamples) = 1

(***************************************************************************)
(* Claims about the layout-backed twins                                    *)
(***************************************************************************)
\* C5: for each layout-backed twin, over any sequence of get_component,
\* get_geometry, get_ports and get_bounds calls, _build_component has run at
\* most once, exactly when a component is cached, and every accessor that has
\* been called worked from the layout object that is cached now.
C5_BuiltOnce ==
    \A t \in Twins :
        /\ builds[t] <= 1
        /\ (builds[t] = 0) <=> (component[t] = None)
        /\ \A a \in Accessors : used[t][a] \in {None, component[t]}

\* C5 witness: one twin has served all four accessors from its one layout,
\* and a second twin has built a layout of its own.
C5_Witness ==
    \E t, u \in Twins :
        /\ t # u
        /\ builds[t] = 1
        /\ component[t] # None
        /\ \A a \in Accessors : used[t][a] = component[t]
        /\ builds[u] = 1
        /\ component[u] # component[t]

(***************************************************************************)
(* Claims about MeepRunner                                                 *)
(***************************************************************************)
Returned == ret.op = "simulate_component" /\ ret.raised = "none"
\* The monitored ports of the twin of the last call: all but 'o1'.
ClaimMonitored ==
    {PortsOf(ret.comp)[k].name : k \in DOMAIN PortsOf(ret.comp)} \ {"o1"}
RECURSIVE ClaimSum(_, _)
ClaimSum(ports, i) ==
    IF ports = {} THEN 0
    ELSE LET p == CHOOSE q \in ports : TRUE
         IN ret.raw_flux[p][i] + ClaimSum(ports \ {p}, i)

C3_WitnessAllZero ==
    /\ Returned
    /\ \A p \in ClaimMonitored : \A i \in 1..NFreq : ret.raw_flux[p][i] = 0
    /\ \A p \in ClaimMonitored : \A i \in 1..NFreq : ret.s_params[p][i] = <<0, 1>>

\* C4 as stated: every transmission simulate_component returns, for every
\* monitored port and frequency point, lies between 0.0 and 1.0 inclusive.
C4_UnitRange ==
    Returned =>
        \A p \in DOMAIN ret.s_params : \A i \in 1..NFreq :
            LET t == ret.s_params[p][i]
            IN t[2] > 0 /\ 0 <= t[1] /\ t[1] <= t[2]

\* The reference names the simulation constructed last, or nothing.
C10_State ==
    /\ simCount = 0 => sim = None
    /\ simCount > 0 => sim = simCount
    /\ pc # "idle" => frame.sim = sim
    /\ (ret.op \in {"plot_structure", "visualize_fields", "simulate_component"}
          /\ ret.raised \in {"none", "StopIteration"}) => ret.sim = sim
\* A step that constructs no simulation keeps the reference.
C10_Step ==
    /\ simCount' = simCount => sim' = sim
    /\ ret'.raised = "KeyError" => (simCount' = simCount /\ sim' = sim)
\* C10: self.sim is None until the first simulation is constructed and
\* afterwards is the simulation constructed last, in every state that any
\* sequence of plot_structure, simulate_component, visualize_fields and
\* visualize_last_run calls reaches; a call that raised KeyError constructed
\* nothing and left the reference as it was.
C10_SimIsLatest == []C10_State /\ [][C10_Step]_vars

\* C10 witness: after a simulation was constructed, a call on a twin without
\* an 'o1' port failed and the reference still names that simulation.
C10_Witness ==
    /\ ret.raised = "KeyError"
    /\ ret.comp = "NoInputTwin"
    /\ simCount = 2
    /\ sim = 2

(***************************************************************************)
(* create_coupler_mesh: how far the domain reaches beyond the cores        *)
(***************************************************************************)
MeshMade == polygons.core # <<>>

\* sim_width / 2 - ((gap + width) / 2 + width / 2), on either side
MarginBeyondEdge(side) ==
    IF side = 1 THEN polygons.core[1].minx - polygons.box.minx
    ELSE polygons.box.maxx - polygons.core[2].maxx

\* sim_width / 2 - (gap + width) / 2, on either side
MarginBeyondCentre(side) ==
    IF side = 1
    THEN (polygons.core[1].minx + polygons.core[1].maxx) \div 2 - polygons.box.minx
    ELSE polygons.box.maxx - (polygons.core[2].minx + polygons.core[2].maxx) \div 2

\* C11 as stated: for every width > 0 and gap >= 0 the domain extends at
\* least 4 microns beyond the outer edge of each core in x.
C11_Original ==
    MeshMade => \A side \in {1, 2} : MarginBeyondEdge(side) >= 400

\* C11, amended: for every width > 0 and gap >= 0 the domain is at least
\* domain_width wide and extends at least 2 microns beyond the centre of
\* each core in x (sim_width >= 2 * offset + 4), hence at least
\* 2 - width / 2 microns beyond its outer edge.
C11_Amended ==
    MeshMade =>
        /\ polygons.box.maxx - polygons.box.minx >= domain_width
        /\ polygons.box.minx = polygons.clad_top.minx
        /\ polygons.box.maxx = polygons.clad_top.maxx
        /\ \A side \in {1, 2} :
              /\ MarginBeyondCentre(side) >= 200
              /\ MarginBeyondEdge(side) >= 200 - width \div 2

\* A coupler mesh whose domain was widened beyond domain_width and still ends
\* less than 4 microns from the outer edge of the cores.
C11_Witness ==
    /\ MeshMade
    /\ polygons.box.maxx - polygons.box.minx > domain_width
    /\ MarginBeyondEdge(2) < 400
    /\ MarginBeyondCentre(2) = 200

(***************************************************************************)
(* get_complex_s_params: magnitude and phase of the result                 *)
(***************************************************************************)
SParamsMade == sRet.called /\ ~phase_rad.given

\* C12 as stated: with no phase supplied, for every T_linear of any sign the
\* result S has |S|^2 = T and angle(S) = 0, elementwise.
C12_Original ==
    SParamsMade =>
        \A i \in DOMAIN T_linear :
            /\ AbsSquared(sRet.S[i]) = T_linear[i]
            /\ Angle(sRet.S[i]) = 0

\* C12, amended: with no phase supplied, for every T_linear of any sign the
\* result S has the shape of T_linear, |S|^2 = |T| (which is T where T >= 0)
\* and angle(S) = 0, elementwise.
C12_Amended ==
    SParamsMade =>
        /\ Len(sRet.S) = Len(T_linear)
        /\ \A i \in DOMAIN T_linear :
              /\ AbsSquared(sRet.S[i]) = Abs(T_linear[i])
              /\ T_linear[i] >= 0 => AbsSquared(sRet.S[i]) = T_linear[i]
              /\ Angle(sRet.S[i]) = 0

\* A conversion without phase of an array holding a negative transmission
\* and a transmission of 1/4.
C12_Witness ==
    /\ SParamsMade
    /\ \E i \in DOMAIN T_linear : T_linear[i] < 0 /\ AbsSquared(sRet.S[i]) = -T_linear[i]
    /\ \E i \in DOMAIN T_linear : T_linear[i] = 4 /\ sRet.S[i] = [re |-> 2, im |-> 0]

(***************************************************************************)
(* simulate_component: the port whose center the decay condition watches   *)
(***************************************************************************)
\* The x coordinate of the port called name among ports
XOf(ports, name) == ports[CHOOSE i \in DOMAIN ports : ports[i].name = name].x

\* C13 as stated: the port whose center is passed to the decay condition is
\* never the input port 'o1' and has the largest x among the monitored
\* (non-'o1') ports, whatever the twin and its port layout.
C13_FurthestIsOutput ==
    \A f \in {frame.furthest, ret.furthest} :
        f # "" =>
            LET ports == PortsOf(IF pc = "idle" THEN ret.comp ELSE frame.comp)
            IN /\ f # "o1"
               /\ \A i \in DOMAIN ports :
                     ports[i].name # "o1" => ports[i].x <= XOf(ports, f)

(***************************************************************************)
(* Two interleaved simulate_component calls on one runner                  *)
(***************************************************************************)
CallDone(t) == calls[t].pc = "done"

\* What call t returns when it is computed from the simulation and the
\* monitors the call built itself.
OwnResult(t) ==
    LET fcen == CenterFreq(calls[t].wavelength)
        names == MonitoredNames(PortsOf(calls[t].comp))
        own == simFlux[calls[t].sim]
    IN [wl |-> WavelengthsOf(FluxFreqs(fcen, FreqWidth(fcen))),
        raw_flux |-> DictOf(names, own.flux),
        s_params |-> DictOf(names, Normalized(own.flux))]

\* Each finished call ran its own simulation and returns the wavelengths and
\* transmissions of its own monitors.
C14_OwnData ==
    \A t \in Threads :
        CallDone(t) =>
            /\ calls[t].ran = calls[t].sim
            /\ simFlux[calls[t].sim].names = MonitoredNames(PortsOf(calls[t].comp))
            /\ calls[t].ret = OwnResult(t)

\* A step of one call changes neither the other call's local variables nor
\* the monitors of the other call's simulation.
C14_Step ==
    \A t \in Threads, u \in Threads :
        (t # u /\ calls'[t] # calls[t]) =>
            /\ calls'[u] = calls[u]
            /\ calls[u].sim # None => simFlux'[calls[u].sim] = simFlux[calls[u].sim]

\* self.sim is the simulation of the call that assigned it last.
C14_LastStored ==
    IF stored = <<>> THEN sim = None
    ELSE sim = calls[stored[Len(stored)]].sim

\* self.sim ends as the simulation that was constructed last.
C14_LastConstructed ==
    (\A t \in Threads : CallDone(t)) => sim = simCount

\* C14 as stated: when two simulate_component calls on one MeepRunner
\* interleave, each call returns wavelengths and transmissions computed only
\* from the simulation and monitors it built itself, and self.sim ends as
\* the simulation of whichever call constructed its simulation last.
C14_Original == [](C14_OwnData /\ C14_LastConstructed) /\ [][C14_Step]_vars

\* C14, amended: when two simulate_component calls on one MeepRunner
\* interleave, each call returns wavelengths and transmissions computed only
\* from the simulation and monitors it built itself, no call touches the
\* other's local variables or monitors, and self.sim ends as the simulation
\* of whichever call assigned self.sim last, which need not be the call
\* that constructed its simulation last.
C14_Amended == [](C14_OwnData /\ C14_LastStored) /\ [][C14_Step]_vars

\* Both calls have returned, with different transmissions, the second call
\* constructed its simulation last and the first assigned self.sim last.
C14_Witness ==
    /\ \A t \in Threads : CallDone(t)
    /\ calls[1].sim = 1 /\ calls[2].sim = 2
    /\ stored = <<2, 1>>
    /\ sim = 1
    /\ calls[1].comp = calls[2].comp
    /\ calls[1].ret.s_params # calls[2].ret.s_params
    /\ calls[1].ret = OwnResult(1) /\ calls[2].ret = OwnResult(2)

(***************************************************************************)
(* export_to_touchstone called twice with the same arguments               *)
(***************************************************************************)
\* C15 as stated: export_to_touchstone leaves the caller's s_dict unchanged,
\* so two calls in a row with the same wvl, s_dict and port_map write the
\* same frequency axis and the same S-matrix, also when the frequency axis
\* derived from wvl is descending.
C15_State == Len(files) = 2 => files[1] = files[2]
C15_Step == s_dict' = s_dict
C15_SameFileTwice == []C15_State /\ [][C15_Step]_vars

=============================================================================
